---- MODULE Spec2Model ----
(***************************************************************************)
(* A model of egui-toast (src/lib.rs, src/utils/wasm.rs): the toast        *)
(* registry kept in the egui context, the per-frame `Toasts::show` pass    *)
(* (merge, layout rectangle, render loop, prune, repaint request), the     *)
(* close action, and the progress-bar computation over `Instant`s.         *)
(*                                                                         *)
(* Time is an integer number of clock ticks; TicksPerMs ticks make one     *)
(* millisecond, so that the whole-millisecond truncation of the wasm32     *)
(* `Instant` arithmetic is visible.  `show` is modelled as the sequence of *)
(* its steps (ShowBegin, one Render step per toast, ShowEnd), because the  *)
(* clock may advance between the point where `show` samples `now` and the  *)
(* later points where `close` and the progress bar read the clock again.   *)
(***************************************************************************)
EXTENDS Integers, Sequences, FiniteSets

\* ------------------------------------------------------------- bounds
MaxToasts == 2
MaxClock == 3
MaxDuration == 2
TicksPerMs == 2
MaxCoord == 4

\* ---------------------------------------------------------- constants
\* Option::None for an Option<Instant> / Option<Duration>
None == -1
\* stands for f32::MAX: larger than every coordinate of the model
F32_MAX == 1000000

Ids == 0 .. (MaxToasts - 1)
Directions == {"TopDown", "BottomUp", "LeftToRight", "RightToLeft"}
Targets == {"native", "wasm32"}
\* ToastKind values; CustomKinds are the kinds with an entry in custom_toast_contents
Kinds == {"Info", "Custom"}
CustomKinds == {"Custom"}

VARIABLES
    target,        \* cfg(target_arch): which Instant the build uses
    anchor,        \* Toasts.anchor
    direction,     \* Toasts.direction
    align_to_end,  \* Toasts.align_to_end
    screen_area,   \* what ctx.available_rect() returns
    clock,         \* the value Instant::now() returns
    self_toasts,   \* Toasts.toasts: toasts added since the last show
    data_toasts,   \* ctx.data() temp value under `id`: the persisted registry
    data_pos,      \* ctx.data() temp value under id.with("pos")
    repaint,       \* a repaint request is outstanding (set by show, cleared by the host)
    in_frame,      \* the host has started a frame in which show was not called yet
    pc,            \* "idle" | "render" | "done" | "panicked"
    now,           \* show's local `now`
    toasts,        \* show's local `toasts`
    idx,           \* position of the render loop (next toast to render)
    rect,          \* show's local `rect`
    next_area_pos, \* show's local `next_area_pos`
    nextId,        \* number of toasts added so far (add order)
    merged,        \* history: the merged list as it was before rendering
    rects,         \* history: top-left corners of the rectangles rendered in this show
    closedInShow,  \* history: ids on which close was called during this show
    closedIds,     \* history: ids on which close was ever called
    painted        \* history: per toast, what add_progress_bar_layer did in this show

vars == <<target, anchor, direction, align_to_end, screen_area, clock,
          self_toasts, data_toasts, data_pos, repaint, in_frame, pc, now, toasts,
          idx, rect, next_area_pos, nextId, merged, rects, closedInShow, closedIds,
          painted>>

\* ------------------------------------------------------------ helpers
Min2(a, b) == IF a <= b THEN a ELSE b

\* a variant of PosMin that keeps the last corner only
PosLast(p, q) == q

\* Pos2::min: component-wise minimum
PosMin(p, q) == <<Min2(p[1], q[1]), Min2(p[2], q[2])>>

\* Rect::from_min_size
RectFromMinSize(min, size) == [min |-> min, max |-> <<min[1] + size[1], min[2] + size[2]>>]

RectWidth(r) == r.max[1] - r.min[1]
RectHeight(r) == r.max[2] - r.min[2]

IdsOf(s) == [i \in DOMAIN s |-> s[i].id]
IdSet(s) == {s[i].id : i \in DOMAIN s}

\* ------------------------------------------------------ Instant (time)
\* Duration::as_millis, in ticks: whole milliseconds only
AsMillis(d) == (d \div TicksPerMs) * TicksPerMs

\* Instant + Duration
InstantAdd(tgt, t, d) == IF tgt = "wasm32" THEN t + AsMillis(d) ELSE t + d

\* Instant - Instant: [ok, dur].  wasm32 asserts ms >= 0.0 and keeps whole
\* milliseconds; std::time::Instant saturates to a zero Duration.
InstantSub(tgt, a, b) ==
    IF tgt = "wasm32"
    THEN IF a - b >= 0 THEN [ok |-> TRUE, dur |-> AsMillis(a - b)]
                       ELSE [ok |-> FALSE, dur |-> 0]
    ELSE [ok |-> TRUE, dur |-> IF a - b >= 0 THEN a - b ELSE 0]

\* ------------------------------------------------------------- toasts
\* ToastOptions::default()
DefaultOptions == [expires_at |-> None, created_at |-> None]

\* ToastOptions::with_duration(duration): expires_at is computed from a first
\* clock reading t1, created_at is a second reading t2
with_duration(tgt, duration, t1, t2) ==
    [expires_at |-> IF duration = None THEN None ELSE InstantAdd(tgt, t1, duration),
     created_at |-> t2]

MkToast(id, kind, options) ==
    [id |-> id, kind |-> kind,
     expires_at |-> options.expires_at, created_at |-> options.created_at]

\* a variant of close that leaves an expiry that is already set alone
closeKeep(toast, t) ==
    [toast EXCEPT !.expires_at = IF toast.expires_at = None THEN t ELSE toast.expires_at]

\* Toast::close
close(toast, t) == [toast EXCEPT !.expires_at = t]

\* a variant of Retained that prunes only once the expiry is strictly past
RetainedLate(toast, n) == ~(toast.expires_at # None /\ toast.expires_at < n)

\* a variant of Retained that also prunes the toasts with no expiry
RetainedTimed(toast, n) == toast.expires_at # None /\ toast.expires_at > n

\* the predicate of toasts.retain in show
Retained(toast, n) == ~(toast.expires_at # None /\ toast.expires_at <= n)

Prune(ts, n) == SelectSeq(ts, LAMBDA t : Retained(t, n))

\* a variant of Merge that puts the pending toasts first
MergePendingFirst(persisted, pending) == pending \o persisted

\* show's merge: persisted toasts, extended by the pending ones
Merge(persisted, pending) == persisted \o pending

\* ------------------------------------------------------------- layout
\* the `match (direction, align_to_end)` of show: the rectangle toasts stack in
StackRect(dir, ate, anc, area) ==
    LET width == RectWidth(area)
        height == RectHeight(area)
    IN  IF dir \in {"LeftToRight", "TopDown"} /\ ~ate
        THEN RectFromMinSize(anc, <<width - anc[1], height - anc[2]>>)
        ELSE IF dir \in {"RightToLeft", "BottomUp"} /\ ate
        THEN RectFromMinSize(<<0, 0>>, <<anc[1], anc[2]>>)
        ELSE IF (dir = "BottomUp" /\ ~ate) \/ (dir = "LeftToRight" /\ ate)
        THEN RectFromMinSize(<<anc[1], 0>>, <<width - anc[1], anc[2]>>)
        ELSE RectFromMinSize(<<0, anc[2]>>, <<anc[1], height - anc[2]>>)

\* ------------------------------------------------------- progress bar
\* what add_progress_bar_layer did for a toast: the shapes it added (outline,
\* fill), whether it computed remaining_time as num / den (otherwise it is
\* left at 0.0), and the clock reading `at` it used
NoBar ==
    [outline |-> FALSE, fill |-> FALSE, computed |-> FALSE, num |-> 0, den |-> 0,
     at |-> None]

\* a variant of add_progress_bar_layer that also returns early when
\* created_at is unset
add_progress_bar_layer_skip(tgt, toast, t) ==
    IF toast.expires_at = None \/ toast.created_at = None
    THEN [panic |-> FALSE, bar |-> NoBar]
    ELSE LET n == InstantSub(tgt, toast.expires_at, t)
             d == InstantSub(tgt, toast.expires_at, toast.created_at)
         IN  IF ~n.ok \/ ~d.ok
             THEN [panic |-> TRUE, bar |-> NoBar]
             ELSE [panic |-> FALSE,
                   bar |-> [outline |-> TRUE, fill |-> TRUE, computed |-> TRUE,
                            num |-> n.dur, den |-> d.dur, at |-> t]]

\* add_progress_bar_layer, reading the clock at t: [panic, bar]
add_progress_bar_layer(tgt, toast, t) ==
    IF toast.expires_at = None
    THEN [panic |-> FALSE, bar |-> NoBar]
    ELSE IF toast.created_at = None
    THEN [panic |-> FALSE,
          bar |-> [outline |-> TRUE, fill |-> TRUE, computed |-> FALSE,
                   num |-> 0, den |-> 0, at |-> None]]
    ELSE LET n == InstantSub(tgt, toast.expires_at, t)
             d == InstantSub(tgt, toast.expires_at, toast.created_at)
         IN  IF ~n.ok \/ ~d.ok
             THEN [panic |-> TRUE, bar |-> NoBar]
             ELSE [panic |-> FALSE,
                   bar |-> [outline |-> TRUE, fill |-> TRUE, computed |-> TRUE,
                            num |-> n.dur, den |-> d.dur, at |-> t]]

\* ------------------------------------------------------------ actions
\* the top-left corner the host's layout gives the i-th toast of the stack
\* (toast_response.rect.min): the corners alternate, so that the minimum of
\* two of them is neither of them
CornerOf(i) == IF i % 2 = 1 THEN <<1, 2>> ELSE <<2, 1>>

InitCommon ==
    /\ clock = 0
    /\ self_toasts = <<>>
    /\ data_toasts = <<>>
    /\ data_pos = <<0, 0>>
    /\ repaint = FALSE
    /\ in_frame = FALSE
    /\ pc = "idle"
    /\ now = 0
    /\ toasts = <<>>
    /\ idx = 1
    /\ rect = RectFromMinSize(<<0, 0>>, <<0, 0>>)
    /\ next_area_pos = <<F32_MAX, F32_MAX>>
    /\ nextId = 0
    /\ merged = <<>>
    /\ rects = <<>>
    /\ closedInShow = {}
    /\ closedIds = {}
    /\ painted = [i \in Ids |-> NoBar]

\* Toasts::new().anchor((3, 3)) on a viewport at the origin, either build
Init ==
    /\ target \in Targets
    /\ anchor = <<3, 3>>
    /\ direction = "TopDown"
    /\ align_to_end = FALSE
    /\ screen_area = RectFromMinSize(<<0, 0>>, <<MaxCoord, MaxCoord>>)
    /\ InitCommon

config == <<target, anchor, direction, align_to_end, screen_area>>
showLocals == <<now, toasts, idx, rect, next_area_pos>>
history == <<merged, rects, closedInShow, closedIds, painted>>

\* the clock advances (between calls, or between two steps of show)
Tick ==
    /\ pc \in {"idle", "render"}
    /\ clock < MaxClock
    /\ clock' = clock + 1
    /\ UNCHANGED <<config, self_toasts, data_toasts, data_pos, repaint, in_frame, pc,
                   showLocals, nextId, history>>

\* the host GUI starts a frame on the same context (the host's frame loop is
\* not part of this crate): it consumes the outstanding repaint request, and
\* the frame's callback is about to call show
HostFrame ==
    /\ pc = "idle"
    /\ repaint' = FALSE
    /\ in_frame' = TRUE
    /\ UNCHANGED <<config, clock, self_toasts, data_toasts, data_pos, pc,
                   showLocals, nextId, history>>

\* Toasts::add (and info/warning/error/success) with ToastOptions::default()
AddDefault ==
    /\ pc = "idle"
    /\ nextId < MaxToasts
    /\ \E kind \in Kinds :
         self_toasts' = Append(self_toasts, MkToast(nextId, kind, DefaultOptions))
    /\ nextId' = nextId + 1
    /\ UNCHANGED <<config, clock, data_toasts, data_pos, repaint, in_frame, pc,
                   showLocals, history>>

\* Toasts::add with ToastOptions::with_duration(duration); the clock may
\* advance by dt between the two Instant::now() calls of with_duration
AddWithDuration ==
    /\ pc = "idle"
    /\ nextId < MaxToasts
    /\ \E kind \in Kinds, duration \in {None} \cup (0 .. MaxDuration), dt \in {0, 1} :
         LET options == with_duration(target, duration, clock, clock + dt)
         IN  /\ clock + dt <= MaxClock
             /\ duration = None => dt = 0
             /\ options.expires_at <= MaxClock
             /\ self_toasts' = Append(self_toasts, MkToast(nextId, kind, options))
             /\ clock' = clock + dt
    /\ nextId' = nextId + 1
    /\ UNCHANGED <<config, data_toasts, data_pos, repaint, in_frame, pc, showLocals, history>>

\* show, up to the render loop: merge, take the pending list, sample `now`,
\* compute the stacking rectangle
ShowBegin ==
    /\ pc = "idle"
    /\ toasts' = Merge(data_toasts, self_toasts)
    /\ merged' = Merge(data_toasts, self_toasts)
    /\ self_toasts' = <<>>
    /\ now' = clock
    /\ rect' = StackRect(direction, align_to_end, anchor, screen_area)
    /\ next_area_pos' = <<F32_MAX, F32_MAX>>
    /\ idx' = 1
    /\ rects' = <<>>
    /\ closedInShow' = {}
    /\ in_frame' = FALSE
    /\ pc' = "render"
    /\ UNCHANGED <<config, clock, data_toasts, data_pos, repaint, nextId, closedIds,
                   painted>>

\* one iteration of the render loop for a kind with custom contents: the
\* callback may call toast.close()
RenderCustom ==
    /\ pc = "render"
    /\ idx <= Len(toasts)
    /\ toasts[idx].kind \in CustomKinds
    /\ \E closes \in BOOLEAN :
         /\ toasts' = [toasts EXCEPT ![idx] =
                          IF closes THEN close(toasts[idx], clock) ELSE toasts[idx]]
         /\ closedInShow' = IF closes THEN closedInShow \cup {toasts[idx].id}
                                      ELSE closedInShow
         /\ closedIds' = IF closes THEN closedIds \cup {toasts[idx].id} ELSE closedIds
         /\ next_area_pos' = PosMin(next_area_pos, CornerOf(idx))
         /\ rects' = Append(rects, CornerOf(idx))
    /\ idx' = idx + 1
    /\ UNCHANGED <<config, clock, self_toasts, data_toasts, data_pos, repaint, in_frame, pc,
                   now, rect, nextId, merged, painted>>

\* one iteration of the render loop with the default renderer:
\* default_toast_contents (the dismiss button may be clicked), then
\* add_progress_bar_layer, which reads the clock again (dt later)
RenderDefault ==
    /\ pc = "render"
    /\ idx <= Len(toasts)
    /\ toasts[idx].kind \notin CustomKinds
    /\ \E clicked \in BOOLEAN, dt \in {0, 1} :
         LET toast == IF clicked THEN close(toasts[idx], clock) ELSE toasts[idx]
             res == add_progress_bar_layer(target, toast, clock + dt)
         IN  /\ clock + dt <= MaxClock
             /\ clock' = clock + dt
             /\ toasts' = [toasts EXCEPT ![idx] = toast]
             /\ closedInShow' = IF clicked THEN closedInShow \cup {toast.id}
                                           ELSE closedInShow
             /\ closedIds' = IF clicked THEN closedIds \cup {toast.id} ELSE closedIds
             /\ IF res.panic
                THEN /\ pc' = "panicked"
                     /\ UNCHANGED <<painted, next_area_pos, rects, idx>>
                ELSE /\ pc' = pc
                     /\ painted' = [painted EXCEPT ![toast.id] = res.bar]
                     /\ next_area_pos' = PosMin(next_area_pos, CornerOf(idx))
                     /\ rects' = Append(rects, CornerOf(idx))
                     /\ idx' = idx + 1
    /\ UNCHANGED <<config, self_toasts, data_toasts, data_pos, repaint, in_frame, now, rect,
                   nextId, merged>>

\* show, after the render loop: remember the next stack origin, prune,
\* request a repaint if toasts remain, persist
ShowEnd ==
    /\ pc = "render"
    /\ idx > Len(toasts)
    /\ data_pos' = IF toasts = <<>> THEN anchor ELSE next_area_pos
    /\ next_area_pos' = IF toasts = <<>> THEN anchor ELSE next_area_pos
    /\ data_toasts' = Prune(toasts, now)
    /\ repaint' = (repaint \/ Prune(toasts, now) # <<>>)
    /\ pc' = "done"
    /\ UNCHANGED <<config, clock, self_toasts, in_frame, now, toasts, idx, rect,
                   nextId, history>>

\* show returns: its locals are dropped (and with them the history of the call)
ShowReturn ==
    /\ pc = "done"
    /\ pc' = "idle"
    /\ now' = 0
    /\ toasts' = <<>>
    /\ idx' = 1
    /\ next_area_pos' = <<F32_MAX, F32_MAX>>
    /\ merged' = <<>>
    /\ rects' = <<>>
    /\ closedInShow' = {}
    /\ closedIds' = closedIds \cap IdSet(data_toasts)
    /\ painted' = [i \in Ids |-> NoBar]
    /\ UNCHANGED <<config, clock, self_toasts, data_toasts, data_pos, repaint, in_frame,
                   rect, nextId>>

Next ==
    \/ Tick
    \/ HostFrame
    \/ AddDefault
    \/ AddWithDuration
    \/ ShowBegin
    \/ RenderCustom
    \/ RenderDefault
    \/ ShowEnd
    \/ ShowReturn

Spec == Init /\ [][Next]_vars

\* the scheduling of the frames: the code of a show call runs to its end, the
\* host starts another frame whenever a repaint request is outstanding, the
\* callback of a frame the host started calls show, and the clock
\* keeps advancing (up to the model's horizon)
LiveSpec ==
    /\ Init
    /\ [][Next]_vars
    /\ WF_vars(repaint /\ HostFrame)
    /\ WF_vars(in_frame /\ ShowBegin)
    /\ WF_vars(RenderCustom)
    /\ WF_vars(RenderDefault)
    /\ WF_vars(ShowEnd)
    /\ WF_vars(ShowReturn)
    /\ SF_vars(Tick)

\* ----------------------------------------- layout alone (no toasts added)
\* viewports the host may return: any rectangle of positive size within
\* 0 .. MaxCoord, not necessarily at the origin (panels shown before the
\* toasts shrink ctx.available_rect())
Viewports ==
    {[min |-> <<x0, y0>>, max |-> <<x1, y1>>] :
        x0 \in 0 .. 1, y0 \in 0 .. 1,
        x1 \in (MaxCoord - 1) .. MaxCoord, y1 \in (MaxCoord - 1) .. MaxCoord}

InViewport(p, area) ==
    /\ area.min[1] <= p[1] /\ p[1] <= area.max[1]
    /\ area.min[2] <= p[2] /\ p[2] <= area.max[2]

\* Toasts::new().anchor(a).direction(d).align_to_end(e), for every
\* configuration with the anchor inside the viewport
LayoutInit ==
    /\ target = "native"
    /\ screen_area \in Viewports
    /\ anchor \in {a \in (0 .. MaxCoord) \X (0 .. MaxCoord) : InViewport(a, screen_area)}
    /\ direction \in Directions
    /\ align_to_end \in BOOLEAN
    /\ InitCommon

LayoutNext ==
    \/ ShowBegin
    \/ ShowEnd
    \/ ShowReturn

LayoutSpec == LayoutInit /\ [][LayoutNext]_vars

\* ============================================================== claims
Pruned(id) == id \notin IdSet(data_toasts)
Persisted(id) == id \in IdSet(data_toasts)

\* the toasts of show's list that the default renderer has rendered so far
DefaultRendered ==
    {i \in DOMAIN toasts : i < idx /\ toasts[i].kind \notin CustomKinds}

StrictlyIncreasing(s) == \A i, j \in DOMAIN s : i < j => s[i] < s[j]

\* the component-wise minimum of a non-empty sequence of corners
MinCorner(cs) ==
    <<CHOOSE x \in {cs[i][1] : i \in DOMAIN cs} : \A i \in DOMAIN cs : x <= cs[i][1],
      CHOOSE y \in {cs[i][2] : i \in DOMAIN cs} : \A i \in DOMAIN cs : y <= cs[i][2]>>

\* ------------------------------------------------------------------ C1
\* C1 as stated: when a show call has pruned and persisted, every toast of
\* the merged list (as merged, before rendering) whose expires_at is set and
\* not later than `now` is absent from the persisted registry, and every one
\* whose expires_at is set and strictly later than `now` is present in it.
C1_AsStated ==
    pc = "done" =>
        \A i \in DOMAIN merged :
            /\ (merged[i].expires_at # None /\ merged[i].expires_at <= now)
                   => Pruned(merged[i].id)
            /\ (merged[i].expires_at # None /\ merged[i].expires_at > now)
                   => Persisted(merged[i].id)

\* C1 amended: the same, for expires_at as it stands when the prune pass runs,
\* that is after the render loop, in which close may have reset it: a toast is
\* absent from the registry the call persists exactly if that expires_at is
\* set and not later than `now`, and otherwise it is persisted unchanged.
C1_PruneByExpiryAfterRender ==
    pc = "done" =>
        \A i \in DOMAIN toasts :
            /\ (toasts[i].expires_at # None /\ toasts[i].expires_at <= now)
                   => Pruned(toasts[i].id)
            /\ (toasts[i].expires_at # None /\ toasts[i].expires_at > now)
                   => \E j \in DOMAIN data_toasts : data_toasts[j] = toasts[i]
            /\ toasts[i].id \notin closedInShow => toasts[i] = merged[i]

\* a show has pruned a toast whose expiry was strictly in the past and that
\* was not closed, and has kept one whose expiry is strictly later than `now`
C1_Witness ==
    /\ pc = "done"
    /\ \E i \in DOMAIN toasts :
         /\ toasts[i].id \notin closedIds
         /\ toasts[i].expires_at # None
         /\ toasts[i].expires_at < now
         /\ Pruned(toasts[i].id)
    /\ \E i \in DOMAIN toasts :
         /\ toasts[i].expires_at # None
         /\ toasts[i].expires_at > now
         /\ Persisted(toasts[i].id)

\* ------------------------------------------------------------------ C2
\* C2: a toast whose expires_at is unset and on which close is not called
\* stays in the persisted registry through every show call, whatever the
\* clock reads: the prune pass of a show never removes it.
C2_NoExpiryNeverPruned ==
    pc = "done" =>
        \A i \in DOMAIN merged :
            (merged[i].expires_at = None /\ merged[i].id \notin closedInShow)
                => \E j \in DOMAIN data_toasts : data_toasts[j] = merged[i]

\* a show at the clock's horizon has kept a toast without expiry that was
\* created at time 0, while it has pruned a toast whose expiry had passed
C2_Witness ==
    /\ pc = "done"
    /\ now = MaxClock
    /\ \E i \in DOMAIN merged :
         /\ merged[i].expires_at = None
         /\ merged[i].created_at = 0
         /\ Persisted(merged[i].id)
    /\ \E i \in DOMAIN merged :
         /\ merged[i].expires_at # None
         /\ merged[i].id \notin closedIds
         /\ Pruned(merged[i].id)

\* ------------------------------------------------------------------ C3
\* C3 as stated: a toast on which close was called during a show call is
\* removed by the prune pass of that call (the next prune pass after the
\* close).
C3_AsStated ==
    pc = "done" => \A id \in closedInShow : Pruned(id)

\* C3 amended: close sets expires_at to the clock reading at the close, which
\* is never earlier than the `now` of the show call it happens in; the prune
\* pass of that call removes the toast exactly when that reading equals `now`
\* (the clock has not advanced), and otherwise persists it with an expiry that
\* has already passed; a persisted closed toast is removed by the prune pass
\* of the next show call in which close is not called on it again.
C3_ClosedRemovedOnceNowReachesClose ==
    pc = "done" =>
        \A i \in DOMAIN toasts :
            /\ toasts[i].id \in closedInShow =>
                   /\ toasts[i].expires_at # None
                   /\ now <= toasts[i].expires_at
                   /\ toasts[i].expires_at <= clock
                   /\ Persisted(toasts[i].id) <=> toasts[i].expires_at > now
            /\ toasts[i].id \in closedIds \ closedInShow => Pruned(toasts[i].id)

\* one toast, whose expiry was unset or later, was closed after the clock had
\* advanced past `now` and has survived the prune; another, closed in an
\* earlier show, has been removed by this one
C3_Witness ==
    /\ pc = "done"
    /\ \E i \in DOMAIN toasts :
         /\ toasts[i].id \in closedInShow
         /\ merged[i].expires_at # toasts[i].expires_at
         /\ Persisted(toasts[i].id)
    /\ \E i \in DOMAIN toasts :
         /\ toasts[i].id \in closedIds \ closedInShow
         /\ Pruned(toasts[i].id)

\* ------------------------------------------------------------------ C4
\* C4: the stacking rectangle show computes has non-negative width and
\* height, lies inside the viewport, and is one of the parts the anchor splits
\* the viewport into: the anchor is a corner of it and its other edges are
\* edges of the viewport.
C4_RectIsViewportPart ==
    pc = "done" =>
        /\ RectWidth(rect) >= 0
        /\ RectHeight(rect) >= 0
        /\ InViewport(rect.min, screen_area)
        /\ InViewport(rect.max, screen_area)
        /\ \/ rect.min[1] = anchor[1] /\ rect.max[1] = screen_area.max[1]
           \/ rect.min[1] = screen_area.min[1] /\ rect.max[1] = anchor[1]
        /\ \/ rect.min[2] = anchor[2] /\ rect.max[2] = screen_area.max[2]
           \/ rect.min[2] = screen_area.min[2] /\ rect.max[2] = anchor[2]

\* ------------------------------------------------------------------ C5
\* C5: for a toast made by with_duration(d) with a duration (both timestamps
\* set, never closed), the progress fraction num / den the default renderer
\* computes is a number between 0 and 1, is 1 when the clock reads the
\* creation time, is 0 once the clock reads expires_at, and a later clock
\* reading never gives a larger fraction.
C5_ProgressFraction ==
    \A i \in DefaultRendered :
        LET t == toasts[i]
            b == painted[t.id]
        IN  (pc \in {"render", "done"} /\ t.id \notin closedIds
             /\ t.expires_at # None /\ t.created_at # None) =>
                /\ b.computed
                /\ b.den > 0
                /\ 0 <= b.num /\ b.num <= b.den
                /\ b.at = t.created_at => b.num = b.den
                /\ b.at = t.expires_at => b.num = 0
                /\ \A later \in b.at .. MaxClock :
                       LET r == add_progress_bar_layer(target, t, later)
                       IN  /\ ~r.panic
                           /\ r.bar.num * b.den <= b.num * r.bar.den

\* ------------------------------------------------------------------ C6
\* C6: no show call fails: the time differences of the progress computation
\* never trip the assertion of the Instant subtraction, and the divisor
\* expires_at - created_at is never zero when the fraction is computed.
C6_ShowNeverFails ==
    /\ pc # "panicked"
    /\ \A id \in Ids : painted[id].computed => painted[id].den # 0

\* ------------------------------------------------------------------ C7
\* C7 as stated: for a toast the default renderer shows with expires_at set
\* and created_at unset, neither the outline nor the filled rectangle is
\* drawn.
C7_AsStated ==
    pc \in {"render", "done"} =>
        \A i \in DefaultRendered :
            (toasts[i].expires_at # None /\ toasts[i].created_at = None)
                => ~painted[toasts[i].id].outline /\ ~painted[toasts[i].id].fill

\* C7 amended: for such a toast only the computation of the fraction is
\* skipped: remaining_time stays 0, the outline rectangle is drawn and the
\* filled rectangle is drawn with zero width; nothing is drawn only for a
\* toast whose expires_at is unset.
C7_OutlineDrawnFractionZero ==
    pc \in {"render", "done"} =>
        \A i \in DefaultRendered :
            LET b == painted[toasts[i].id]
            IN  /\ (toasts[i].expires_at # None /\ toasts[i].created_at = None)
                       => b.outline /\ b.fill /\ ~b.computed /\ b.num = 0
                /\ toasts[i].expires_at = None => ~b.outline /\ ~b.fill

\* the default renderer has rendered a toast with expires_at set and
\* created_at unset (a toast with default options whose dismiss button was
\* clicked)
C7_Witness ==
    /\ pc \in {"render", "done"}
    /\ \E i \in DefaultRendered :
         /\ toasts[i].expires_at # None
         /\ toasts[i].created_at = None
         /\ painted[toasts[i].id].outline

\* ------------------------------------------------------------------ C8
\* C8 as stated: after a show call the remembered stack origin is the
\* configured anchor whenever the registry persisted by the call is empty,
\* and otherwise the component-wise minimum of the rendered corners.
C8_AsStated ==
    pc = "done" =>
        data_pos = IF data_toasts = <<>> THEN anchor ELSE MinCorner(rects)

\* C8 amended: after a show call the remembered stack origin is the
\* configured anchor whenever the call rendered no toast (its merged list was
\* empty), and otherwise the component-wise minimum of the top-left corners
\* of all toasts rendered in the call, also when the call then pruned all of
\* them.
C8_OriginIsAnchorOrMinCorner ==
    pc = "done" =>
        /\ Len(rects) = Len(toasts)
        /\ data_pos = IF toasts = <<>> THEN anchor ELSE MinCorner(rects)

\* a show has rendered two toasts whose minimum corner is the corner of
\* neither, and has pruned both
C8_Witness ==
    /\ pc = "done"
    /\ Len(rects) = 2
    /\ data_toasts = <<>>
    /\ data_pos \notin {rects[1], rects[2], anchor}

\* ------------------------------------------------------------------ C9
\* C9: the persisted registry and the pending list hold each added toast at
\* most once and in add order, the persisted ones first; show takes the whole
\* pending list, puts it after the persisted toasts in their previous order,
\* and persists exactly the toasts of that list that its prune pass keeps, in
\* the same order.
C9_RegistryInAddOrder ==
    /\ StrictlyIncreasing(IdsOf(data_toasts \o self_toasts))
    /\ IdSet(data_toasts) \cup IdSet(self_toasts) \subseteq 0 .. (nextId - 1)
    /\ pc \in {"render", "done"} =>
           /\ self_toasts = <<>>
           /\ StrictlyIncreasing(IdsOf(toasts))
           /\ IdsOf(toasts) = IdsOf(merged)
    /\ pc = "render" =>
           /\ Len(data_toasts) <= Len(merged)
           /\ SubSeq(merged, 1, Len(data_toasts)) = data_toasts
    /\ pc = "done" =>
           /\ IdSet(data_toasts) =
                  {toasts[i].id : i \in {j \in DOMAIN toasts :
                        toasts[j].expires_at = None \/ toasts[j].expires_at > now}}
           /\ \A j \in DOMAIN data_toasts : \E i \in DOMAIN toasts : data_toasts[j] = toasts[i]

\* a show has merged a survivor of an earlier frame with a toast added since,
\* and has rendered both
C9_Witness ==
    /\ pc = "render"
    /\ Len(data_toasts) = 1
    /\ Len(toasts) = 2
    /\ idx > Len(toasts)
    /\ toasts[1].id = data_toasts[1].id

\* ----------------------------------------------------------------- C10
\* C10: show requests a repaint whenever a toast has survived its prune
\* pass and only then (a call that persists no toast leaves the request as it
\* was), and, with a frame run on every repaint request and the clock
\* advancing, every toast that is in the persisted registry with its
\* expires_at set is eventually absent from it.
C10_ExpiringToastEventuallyGone ==
    /\ [](pc = "done" /\ data_toasts # <<>> => repaint)
    /\ [][(pc = "render" /\ pc' = "done" /\ data_toasts' = <<>>) => repaint' = repaint]_vars
    /\ \A id \in Ids :
           (\E j \in DOMAIN data_toasts :
                data_toasts[j].id = id /\ data_toasts[j].expires_at # None)
               ~> Pruned(id)

====
